---- MODULE Spec2Model ----
(***************************************************************************)
(* Model of src/main.py: the AISearchEngine class (search_bing,            *)
(* clean_and_limit_text, scrape_content, summarize_content,                *)
(* search_and_summarize, cleanup) and the Streamlit entry point main().    *)
(*                                                                         *)
(* A string is a sequence of characters; the empty string is <<>>.  The    *)
(* browser, the pages and the language model are the environment: their    *)
(* answers are nondeterministic choices from small sets.                   *)
(***************************************************************************)
EXTENDS Integers, Sequences, FiniteSets, TLC

\* ------------------------------------------------------------------ bounds
MaxLinks == 3          \* most anchors search_bing finds on the results page
MaxSlider == 3         \* largest max_results drawn (the slider allows up to 10)
MaxTextLen == 3        \* longest input text of clean_and_limit_text explored
MaxWordCap == 2        \* largest max_words of clean_and_limit_text explored

\* ------------------------------------------------------- program constants
MinSlider == 1         \* st.slider(min_value=1)
DefaultMaxWords == 1500 \* clean_and_limit_text(text, max_words=1500)

\* -------------------------------------------------------------- characters
\* Two ASCII letters, two ASCII whitespace characters, one non-ASCII letter
\* (e-acute) and one non-ASCII whitespace character (no-break space).
AsciiLetters == {"a", "b"}
AsciiSpaces == {" ", "\n"}
NonAsciiLetters == {"U+00E9"}
NonAsciiSpaces == {"U+00A0"}
Chars == AsciiLetters \cup AsciiSpaces \cup NonAsciiLetters \cup NonAsciiSpaces

\* str.isspace(): what str.split(), str.strip() and the pattern \s treat as
\* whitespace (Unicode whitespace, since the patterns are str patterns).
Whitespace == AsciiSpaces \cup NonAsciiSpaces
\* the class [^\x00-\x7F]
NonAscii == NonAsciiLetters \cup NonAsciiSpaces

Min(a, b) == IF a <= b THEN a ELSE b

\* text.split(): the maximal runs of non-whitespace characters, in order.
RECURSIVE SplitAcc(_, _, _)
SplitAcc(s, cur, acc) ==
    IF s = <<>>
    THEN IF cur = <<>> THEN acc ELSE Append(acc, cur)
    ELSE IF Head(s) \in Whitespace
         THEN SplitAcc(Tail(s), <<>>, IF cur = <<>> THEN acc ELSE Append(acc, cur))
         ELSE SplitAcc(Tail(s), Append(cur, Head(s)), acc)

split(s) == SplitAcc(s, <<>>, <<>>)

\* words[:max_words] for max_words >= 0
Slice(words, n) == SubSeq(words, 1, Min(n, Len(words)))

\* ' '.join(words)
RECURSIVE join(_)
join(words) ==
    IF words = <<>> THEN <<>>
    ELSE IF Len(words) = 1 THEN words[1]
    ELSE words[1] \o <<" ">> \o join(Tail(words))

\* re.sub(r'[cls]+', ' ', s): every maximal run of characters of cls becomes
\* one space.  inRun says that the previous character was of cls.
RECURSIVE SubRuns(_, _, _)
SubRuns(s, cls, inRun) ==
    IF s = <<>> THEN <<>>
    ELSE IF Head(s) \in cls
         THEN (IF inRun THEN <<>> ELSE <<" ">>) \o SubRuns(Tail(s), cls, TRUE)
         ELSE <<Head(s)>> \o SubRuns(Tail(s), cls, FALSE)

re_sub(cls, s) == SubRuns(s, cls, FALSE)

RECURSIVE lstrip(_)
lstrip(s) ==
    IF s # <<>> /\ Head(s) \in Whitespace THEN lstrip(Tail(s)) ELSE s

RECURSIVE rstrip(_)
rstrip(s) ==
    IF s # <<>> /\ s[Len(s)] \in Whitespace
    THEN rstrip(SubSeq(s, 1, Len(s) - 1)) ELSE s

strip(s) == lstrip(rstrip(s))

\* AISearchEngine.clean_and_limit_text
clean_and_limit_text(t, cap) ==
    LET words == split(t)
        limited1 == join(Slice(words, cap))
        limited2 == re_sub(NonAscii, limited1)
    IN  strip(re_sub(Whitespace, limited2))

\* len(s.split()): the number of whitespace-separated words of s
WordCount(s) == Len(split(s))

IsAscii(s) == \A k \in 1..Len(s) : s[k] \notin NonAscii

\* all strings of length at most n
RECURSIVE StringsUpTo(_)
StringsUpTo(n) ==
    IF n = 0 THEN {<<>>}
    ELSE LET shorter == StringsUpTo(n - 1)
         IN  shorter \cup {Append(s, c) : s \in {x \in shorter : Len(x) = n - 1}, c \in Chars}


\* ------------------------------------------------------------ environment
\* The href attributes of the anchors "#b_results h2 a" of a results page, in
\* DOM order: the k-th anchor links to Anchor(k), or to the first result's url
\* again (a duplicate), or has no href ("").
AnchorUrls == <<"a", "b", "c">>
Anchor(k) == AnchorUrls[((k - 1) % Len(AnchorUrls)) + 1]
ResultPages ==
    UNION {{h \in [1..n -> {"", "a", "b", "c"}] :
               \A k \in 1..n : h[k] \in {"", Anchor(k), Anchor(1)}} : n \in 0..MaxLinks}

\* Texts a scraped page can yield (main_content.get_text()): only a no-break
\* space, or two letters around an e-acute.
PageTexts == {<<"U+00A0">>, <<"a", "U+00E9", "b">>}

\* chat_completion.choices[0].message.content
ModelAnswers == {"", "S1", "S2"}

VARIABLES
    search_clicked,  \* st.session_state.search_clicked
    api_key,         \* sidebar text input
    query,           \* main text input
    max_results,     \* sidebar slider
    pc,              \* position of main() / search_and_summarize()
    engine,          \* TRUE once AISearchEngine(api_key) has returned
    acquired,        \* number of webdriver.Chrome sessions started
    released,        \* number of driver.quit() calls
    collected,       \* what search_bing returned
    urls,            \* search_bing(query)[:max_results]
    i,               \* number of loop iterations started
    content,         \* scrape_content's result in the current iteration
    results,         \* the dict built by search_and_summarize
    sas,             \* search_and_summarize: "none", "returned" or "raised"
    ret,             \* the value search_and_summarize returned
    raised,          \* where the exception caught at line 192 came from
    diagnostics,     \* st.error / st.warning calls, in order
    shown,           \* (summary, citation) pairs written by main
    scrapeLog,       \* history: calls of scrape_content
    summLog,         \* history: calls of summarize_content
    searchCalls,     \* history: number of search_bing calls
    timedOut,        \* history: the wait for "b_results" timed out
    text,            \* clean_and_limit_text: argument text
    cap,             \* clean_and_limit_text: argument max_words
    cleaned,         \* clean_and_limit_text(text, cap)
    recleaned,       \* clean_and_limit_text(cleaned, cap)
    npc              \* position of the clean_and_limit_text exercise

mainVars == <<search_clicked, api_key, query, max_results, pc, engine, acquired,
              released, collected, urls, i, content, results, sas, ret, raised,
              diagnostics, shown, scrapeLog, summLog, searchCalls, timedOut>>
textVars == <<text, cap, cleaned, recleaned, npc>>
vars == <<mainVars, textVars>>

EmptyResults == [summaries |-> <<>>, citations |-> <<>>]

Diag(kind, link) == [kind |-> kind, link |-> link]

\* [href for link in links if href]
search_bing_hrefs(hrefs) == SelectSeq(hrefs, LAMBDA h : h # "")

\* zip(results['summaries'], results['citations'])
zip(a, b) == [k \in 1..Min(Len(a), Len(b)) |-> <<a[k], b[k]>>]

Init ==
    /\ search_clicked \in BOOLEAN
    /\ api_key \in {"", "gsk"}
    /\ query \in {"", "q"}
    /\ max_results \in MinSlider..MaxSlider
    /\ pc = "main"
    /\ engine = FALSE
    /\ acquired = 0
    /\ released = 0
    /\ collected = <<>>
    /\ urls = <<>>
    /\ i = 0
    /\ content = <<>>
    /\ results = EmptyResults
    /\ sas = "none"
    /\ ret = EmptyResults
    /\ raised = "none"
    /\ diagnostics = <<>>
    /\ shown = <<>>
    /\ scrapeLog = <<>>
    /\ summLog = <<>>
    /\ searchCalls = 0
    /\ timedOut = FALSE
    /\ text = <<>>
    /\ cap = 0
    /\ cleaned = <<>>
    /\ recleaned = <<>>
    /\ npc = "off"


\* ----------------------------------------------------------------- main()
\* Mutant of main_guard: the credential is not checked.
main_guard_no_key_check ==
    /\ pc = "main"
    /\ IF ~search_clicked
       THEN pc' = "done" /\ UNCHANGED diagnostics
       ELSE IF query = ""
       THEN /\ diagnostics' = Append(diagnostics, Diag("query_missing", 0))
            /\ pc' = "reset"
       ELSE pc' = "init" /\ UNCHANGED diagnostics
    /\ UNCHANGED <<search_clicked, api_key, query, max_results, engine, acquired,
                   released, collected, urls, i, content, results, sas, ret,
                   raised, shown, scrapeLog, summLog, searchCalls, timedOut, textVars>>

\* Lines 164-168: nothing runs unless Search was clicked; the credential is
\* checked first, then the query.
main_guard ==
    /\ pc = "main"
    /\ IF ~search_clicked
       THEN pc' = "done" /\ UNCHANGED diagnostics
       ELSE IF api_key = ""
       THEN /\ diagnostics' = Append(diagnostics, Diag("api_key_missing", 0))
            /\ pc' = "reset"
       ELSE IF query = ""
       THEN /\ diagnostics' = Append(diagnostics, Diag("query_missing", 0))
            /\ pc' = "reset"
       ELSE pc' = "init" /\ UNCHANGED diagnostics
    /\ UNCHANGED <<search_clicked, api_key, query, max_results, engine, acquired,
                   released, collected, urls, i, content, results, sas, ret,
                   raised, shown, scrapeLog, summLog, searchCalls, timedOut, textVars>>

\* AISearchEngine.__init__ called at line 172.  Groq(...) or webdriver.Chrome(...)
\* may raise: then no session exists and line 199 reports it.
AISearchEngine_init ==
    /\ pc = "init"
    /\ \E ok \in BOOLEAN :
         IF ok
         THEN /\ engine' = TRUE
              /\ acquired' = acquired + 1
              /\ pc' = "search"
              /\ UNCHANGED diagnostics
         ELSE /\ diagnostics' = Append(diagnostics, Diag("init_failed", 0))
              /\ pc' = "reset"
              /\ UNCHANGED <<engine, acquired>>
    /\ UNCHANGED <<search_clicked, api_key, query, max_results, released,
                   collected, urls, i, content, results, sas, ret, raised, shown,
                   scrapeLog, summLog, searchCalls, timedOut, textVars>>

\* ------------------------------------------------- search_and_summarize()
\* Mutant of search_bing: the timeout is swallowed and no link is returned.
search_bing_swallows_timeout ==
    /\ pc = "search"
    /\ searchCalls' = searchCalls + 1
    /\ \/ /\ timedOut' = TRUE
          /\ collected' = <<>>
          /\ urls' = <<>>
          /\ results' = EmptyResults
          /\ pc' = "for"
          /\ UNCHANGED <<raised, sas>>
       \/ \E hrefs \in ResultPages :
            /\ collected' = search_bing_hrefs(hrefs)
            /\ urls' = Slice(search_bing_hrefs(hrefs), max_results)
            /\ results' = EmptyResults
            /\ pc' = "for"
            /\ UNCHANGED <<raised, sas, timedOut>>
    /\ UNCHANGED <<search_clicked, api_key, query, max_results, engine, acquired,
                   released, i, content, ret, diagnostics, shown, scrapeLog,
                   summLog, textVars>>

\* Mutant of search_bing: the list is not cut to max_results.
search_bing_no_limit ==
    /\ pc = "search"
    /\ searchCalls' = searchCalls + 1
    /\ \/ /\ timedOut' = TRUE
          /\ raised' = "search_bing"
          /\ sas' = "raised"
          /\ pc' = "except"
          /\ UNCHANGED <<collected, urls, results>>
       \/ \E hrefs \in ResultPages :
            /\ collected' = search_bing_hrefs(hrefs)
            /\ urls' = search_bing_hrefs(hrefs)
            /\ results' = EmptyResults
            /\ pc' = "for"
            /\ UNCHANGED <<raised, sas, timedOut>>
    /\ UNCHANGED <<search_clicked, api_key, query, max_results, engine, acquired,
                   released, i, content, ret, diagnostics, shown, scrapeLog,
                   summLog, textVars>>

\* Lines 97-107 with search_bing (20-27): the wait for "b_results" either times
\* out, and the TimeoutException leaves search_bing and search_and_summarize
\* (neither has a handler), or the page's hrefs are collected and truncated.
search_bing ==
    /\ pc = "search"
    /\ searchCalls' = searchCalls + 1
    /\ \/ /\ timedOut' = TRUE
          /\ raised' = "search_bing"
          /\ sas' = "raised"
          /\ pc' = "except"
          /\ UNCHANGED <<collected, urls, results>>
       \/ \E hrefs \in ResultPages :
            /\ collected' = search_bing_hrefs(hrefs)
            /\ urls' = Slice(search_bing_hrefs(hrefs), max_results)
            /\ results' = EmptyResults
            /\ pc' = "for"
            /\ UNCHANGED <<raised, sas, timedOut>>
    /\ UNCHANGED <<search_clicked, api_key, query, max_results, engine, acquired,
                   released, i, content, ret, diagnostics, shown, scrapeLog,
                   summLog, textVars>>

\* Line 110: the next url, or the end of the loop.
for_next ==
    /\ pc = "for"
    /\ IF i < Len(urls)
       THEN i' = i + 1 /\ pc' = "scrape"
       ELSE pc' = "return" /\ UNCHANGED i
    /\ UNCHANGED <<search_clicked, api_key, query, max_results, engine, acquired,
                   released, collected, urls, content, results, sas, ret, raised,
                   diagnostics, shown, scrapeLog, summLog, searchCalls, timedOut, textVars>>

\* Mutant of scrape_content: no try/except, the exception leaves the loop.
scrape_content_propagates ==
    /\ pc = "scrape"
    /\ \/ /\ content' = <<>>
          /\ scrapeLog' = Append(scrapeLog,
                 [link |-> i, url |-> urls[i], threw |-> TRUE, content |-> <<>>])
          /\ raised' = "scrape_content"
          /\ sas' = "raised"
          /\ pc' = "except"
          /\ UNCHANGED diagnostics
       \/ \E t \in PageTexts :
            LET c == clean_and_limit_text(t, DefaultMaxWords) IN
            /\ content' = c
            /\ scrapeLog' = Append(scrapeLog,
                   [link |-> i, url |-> urls[i], threw |-> FALSE, content |-> c])
            /\ pc' = IF c # <<>> THEN "summarize" ELSE "progress"
            /\ UNCHANGED <<diagnostics, sas, raised>>
    /\ UNCHANGED <<search_clicked, api_key, query, max_results, engine, acquired,
                   released, collected, urls, i, results, ret, shown,
                   summLog, searchCalls, timedOut, textVars>>

\* Mutant of scrape_content: the summarizer is called for empty content too.
scrape_content_always_summarize ==
    /\ pc = "scrape"
    /\ \/ /\ content' = <<>>
          /\ diagnostics' = Append(diagnostics, Diag("scrape_error", i))
          /\ scrapeLog' = Append(scrapeLog,
                 [link |-> i, url |-> urls[i], threw |-> TRUE, content |-> <<>>])
          /\ pc' = "progress"
       \/ \E t \in PageTexts :
            LET c == clean_and_limit_text(t, DefaultMaxWords) IN
            /\ content' = c
            /\ scrapeLog' = Append(scrapeLog,
                   [link |-> i, url |-> urls[i], threw |-> FALSE, content |-> c])
            /\ pc' = "summarize"
            /\ UNCHANGED diagnostics
    /\ UNCHANGED <<search_clicked, api_key, query, max_results, engine, acquired,
                   released, collected, urls, i, results, sas, ret, raised, shown,
                   summLog, searchCalls, timedOut, textVars>>

\* Lines 112-114 with scrape_content (43-67): any exception is caught, reported
\* with st.error and turned into ""; otherwise the page text is cleaned.
scrape_content ==
    /\ pc = "scrape"
    /\ \/ /\ content' = <<>>
          /\ diagnostics' = Append(diagnostics, Diag("scrape_error", i))
          /\ scrapeLog' = Append(scrapeLog,
                 [link |-> i, url |-> urls[i], threw |-> TRUE, content |-> <<>>])
          /\ pc' = "progress"
       \/ \E t \in PageTexts :
            LET c == clean_and_limit_text(t, DefaultMaxWords) IN
            /\ content' = c
            /\ scrapeLog' = Append(scrapeLog,
                   [link |-> i, url |-> urls[i], threw |-> FALSE, content |-> c])
            /\ pc' = IF c # <<>> THEN "summarize" ELSE "progress"
            /\ UNCHANGED diagnostics
    /\ UNCHANGED <<search_clicked, api_key, query, max_results, engine, acquired,
                   released, collected, urls, i, results, sas, ret, raised, shown,
                   summLog, searchCalls, timedOut, textVars>>

\* Mutant of summarize_content: an empty summary is appended as well.
summarize_content_null_fill ==
    /\ pc = "summarize"
    /\ \/ /\ diagnostics' = Append(diagnostics, Diag("summarize_error", i))
          /\ summLog' = Append(summLog,
                 [link |-> i, content |-> content, threw |-> TRUE, summary |-> ""])
          /\ UNCHANGED results
       \/ \E a \in ModelAnswers :
            /\ summLog' = Append(summLog,
                   [link |-> i, content |-> content, threw |-> FALSE, summary |-> a])
            /\ results' = [summaries |-> Append(results.summaries, a),
                            citations |-> Append(results.citations, urls[i])]
            /\ UNCHANGED diagnostics
    /\ pc' = "progress"
    /\ UNCHANGED <<search_clicked, api_key, query, max_results, engine, acquired,
                   released, collected, urls, i, content, sas, ret, raised, shown,
                   scrapeLog, searchCalls, timedOut, textVars>>

\* Mutant of summarize_content: the url is not appended with the summary.
summarize_content_no_citation ==
    /\ pc = "summarize"
    /\ \/ /\ diagnostics' = Append(diagnostics, Diag("summarize_error", i))
          /\ summLog' = Append(summLog,
                 [link |-> i, content |-> content, threw |-> TRUE, summary |-> ""])
          /\ UNCHANGED results
       \/ \E a \in ModelAnswers :
            /\ summLog' = Append(summLog,
                   [link |-> i, content |-> content, threw |-> FALSE, summary |-> a])
            /\ results' = IF a # ""
                          THEN [summaries |-> Append(results.summaries, a),
                                citations |-> results.citations]
                          ELSE results
            /\ UNCHANGED diagnostics
    /\ pc' = "progress"
    /\ UNCHANGED <<search_clicked, api_key, query, max_results, engine, acquired,
                   released, collected, urls, i, content, sas, ret, raised, shown,
                   scrapeLog, searchCalls, timedOut, textVars>>

\* Mutant of summarize_content: the exception is swallowed without st.error.
summarize_content_silent ==
    /\ pc = "summarize"
    /\ \/ /\ UNCHANGED diagnostics
          /\ summLog' = Append(summLog,
                 [link |-> i, content |-> content, threw |-> TRUE, summary |-> ""])
          /\ UNCHANGED results
       \/ \E a \in ModelAnswers :
            /\ summLog' = Append(summLog,
                   [link |-> i, content |-> content, threw |-> FALSE, summary |-> a])
            /\ results' = IF a # ""
                          THEN [summaries |-> Append(results.summaries, a),
                                citations |-> Append(results.citations, urls[i])]
                          ELSE results
            /\ UNCHANGED diagnostics
    /\ pc' = "progress"
    /\ UNCHANGED <<search_clicked, api_key, query, max_results, engine, acquired,
                   released, collected, urls, i, content, sas, ret, raised, shown,
                   scrapeLog, searchCalls, timedOut, textVars>>

\* Lines 119-122 with summarize_content (69-93): any exception is caught,
\* reported with st.error and turned into ""; a non-empty summary is appended
\* together with the url.
summarize_content ==
    /\ pc = "summarize"
    /\ \/ /\ diagnostics' = Append(diagnostics, Diag("summarize_error", i))
          /\ summLog' = Append(summLog,
                 [link |-> i, content |-> content, threw |-> TRUE, summary |-> ""])
          /\ UNCHANGED results
       \/ \E a \in ModelAnswers :
            /\ summLog' = Append(summLog,
                   [link |-> i, content |-> content, threw |-> FALSE, summary |-> a])
            /\ results' = IF a # ""
                          THEN [summaries |-> Append(results.summaries, a),
                                citations |-> Append(results.citations, urls[i])]
                          ELSE results
            /\ UNCHANGED diagnostics
    /\ pc' = "progress"
    /\ UNCHANGED <<search_clicked, api_key, query, max_results, engine, acquired,
                   released, collected, urls, i, content, sas, ret, raised, shown,
                   scrapeLog, searchCalls, timedOut, textVars>>

\* Lines 124-127: progress_bar.progress and time.sleep(1), then the next url.
loop_pause ==
    /\ pc = "progress"
    /\ pc' = "for"
    /\ UNCHANGED <<search_clicked, api_key, query, max_results, engine, acquired,
                   released, collected, urls, i, content, results, sas, ret,
                   raised, diagnostics, shown, scrapeLog, summLog, searchCalls,
                   timedOut, textVars>>

\* Lines 124-127 raising (the progress widget, an interrupted sleep): nothing in
\* search_and_summarize catches it.
loop_raise ==
    /\ pc = "progress"
    /\ raised' = "loop"
    /\ sas' = "raised"
    /\ pc' = "except"
    /\ UNCHANGED <<search_clicked, api_key, query, max_results, engine, acquired,
                   released, collected, urls, i, content, results, ret,
                   diagnostics, shown, scrapeLog, summLog, searchCalls, timedOut, textVars>>

\* Lines 129-134.
search_and_summarize_return ==
    /\ pc = "return"
    /\ ret' = results
    /\ sas' = "returned"
    /\ pc' = "display"
    /\ UNCHANGED <<search_clicked, api_key, query, max_results, engine, acquired,
                   released, collected, urls, i, content, results, raised,
                   diagnostics, shown, scrapeLog, summLog, searchCalls, timedOut, textVars>>


\* ------------------------------------------------------- main(), continued
\* Lines 178-190: the header, then the warning or the pairs.  Any st call here
\* may raise; the handler at line 192 catches it.
main_display ==
    /\ pc = "display"
    /\ \/ /\ IF ret.summaries = <<>>
             THEN /\ diagnostics' = Append(diagnostics, Diag("no_results", 0))
                  /\ UNCHANGED shown
             ELSE /\ shown' = zip(ret.summaries, ret.citations)
                  /\ UNCHANGED diagnostics
          /\ pc' = "finally"
          /\ UNCHANGED raised
       \/ /\ raised' = "display"
          /\ pc' = "except"
          /\ UNCHANGED <<diagnostics, shown>>
    /\ UNCHANGED <<search_clicked, api_key, query, max_results, engine, acquired,
                   released, collected, urls, i, content, results, sas, ret,
                   scrapeLog, summLog, searchCalls, timedOut, textVars>>

\* Mutant of main_except: cleanup is not in a finally block, the handler skips it.
main_except_skips_cleanup ==
    /\ pc = "except"
    /\ diagnostics' = Append(diagnostics, Diag("search_error", 0))
    /\ pc' = "reset"
    /\ UNCHANGED <<search_clicked, api_key, query, max_results, engine, acquired,
                   released, collected, urls, i, content, results, sas, ret,
                   raised, shown, scrapeLog, summLog, searchCalls, timedOut, textVars>>

\* Lines 192-193.
main_except ==
    /\ pc = "except"
    /\ diagnostics' = Append(diagnostics, Diag("search_error", 0))
    /\ pc' = "finally"
    /\ UNCHANGED <<search_clicked, api_key, query, max_results, engine, acquired,
                   released, collected, urls, i, content, results, sas, ret,
                   raised, shown, scrapeLog, summLog, searchCalls, timedOut, textVars>>

\* Lines 195-196 with cleanup (136-138): driver.quit().  If quit itself raises,
\* the outer handler (198-199) reports it.
cleanup ==
    /\ pc = "finally"
    /\ released' = released + 1
    /\ \E ok \in BOOLEAN :
         diagnostics' = IF ok THEN diagnostics
                        ELSE Append(diagnostics, Diag("init_failed", 0))
    /\ pc' = "reset"
    /\ UNCHANGED <<search_clicked, api_key, query, max_results, engine, acquired,
                   collected, urls, i, content, results, sas, ret, raised, shown,
                   scrapeLog, summLog, searchCalls, timedOut, textVars>>

\* Line 202.
main_reset ==
    /\ pc = "reset"
    /\ search_clicked' = FALSE
    /\ pc' = "done"
    /\ UNCHANGED <<api_key, query, max_results, engine, acquired, released,
                   collected, urls, i, content, results, sas, ret, raised,
                   diagnostics, shown, scrapeLog, summLog, searchCalls, timedOut, textVars>>

Next ==
    \/ main_guard
    \/ AISearchEngine_init
    \/ search_bing
    \/ for_next
    \/ scrape_content
    \/ summarize_content
    \/ loop_pause
    \/ loop_raise
    \/ search_and_summarize_return
    \/ main_display
    \/ main_except
    \/ cleanup
    \/ main_reset

Spec == Init /\ [][Next]_vars

\* ------------------------------------------- clean_and_limit_text exercised
\* The function applied to every text up to MaxTextLen and every word cap up to
\* MaxWordCap, and then applied again to its own result.
TextInit ==
    /\ search_clicked = FALSE
    /\ api_key = ""
    /\ query = ""
    /\ max_results = MinSlider
    /\ pc = "off"
    /\ engine = FALSE
    /\ acquired = 0
    /\ released = 0
    /\ collected = <<>>
    /\ urls = <<>>
    /\ i = 0
    /\ content = <<>>
    /\ results = EmptyResults
    /\ sas = "none"
    /\ ret = EmptyResults
    /\ raised = "none"
    /\ diagnostics = <<>>
    /\ shown = <<>>
    /\ scrapeLog = <<>>
    /\ summLog = <<>>
    /\ searchCalls = 0
    /\ timedOut = FALSE
    /\ text \in StringsUpTo(MaxTextLen)
    /\ cap \in 0..MaxWordCap
    /\ cleaned = <<>>
    /\ recleaned = <<>>
    /\ npc = "call"

clean_first ==
    /\ npc = "call"
    /\ cleaned' = clean_and_limit_text(text, cap)
    /\ npc' = "cleaned"
    /\ UNCHANGED <<mainVars, text, cap, recleaned>>

clean_second ==
    /\ npc = "cleaned"
    /\ recleaned' = clean_and_limit_text(cleaned, cap)
    /\ npc' = "recleaned"
    /\ UNCHANGED <<mainVars, text, cap, cleaned>>

TextNext == clean_first \/ clean_second

TextSpec == TextInit /\ [][TextNext]_vars

TypeOK ==
    /\ pc \in {"main", "init", "search", "for", "scrape", "summarize", "progress",
               "return", "display", "except", "finally", "reset", "done", "off"}
    /\ sas \in {"none", "returned", "raised"}
    /\ raised \in {"none", "search_bing", "loop", "display"}
    /\ i \in 0..Len(urls)
    /\ Len(urls) <= MaxLinks


\* ------------------------------------------------------ derived histories
\* urls as search_and_summarize must have them: the first max_results links.
FirstLinks == Slice(collected, max_results)

\* The summarize_content calls made for link k.
SummCalls(k) == {n \in 1..Len(summLog) : summLog[n].link = k}

\* The summary link k produced ("" when the summarizer was not called for it).
SummaryOf(k) ==
    IF SummCalls(k) = {} THEN "" ELSE summLog[CHOOSE n \in SummCalls(k) : TRUE].summary

SummThrew(k) == \E n \in SummCalls(k) : summLog[n].threw

\* The (summary, url) pairs of the first n scraped links that gave non-empty
\* content and a non-empty summary, in the order of scraping.
RECURSIVE ExpectedPairs(_)
ExpectedPairs(n) ==
    IF n = 0 THEN <<>>
    ELSE IF scrapeLog[n].content # <<>> /\ SummaryOf(n) # ""
         THEN Append(ExpectedPairs(n - 1), <<SummaryOf(n), scrapeLog[n].url>>)
         ELSE ExpectedPairs(n - 1)

\* The (link, content) arguments of the summarize_content calls owed to the
\* first n scraped links: one per link with non-empty content.
RECURSIVE ExpectedSummCalls(_)
ExpectedSummCalls(n) ==
    IF n = 0 THEN <<>>
    ELSE IF scrapeLog[n].content # <<>>
         THEN Append(ExpectedSummCalls(n - 1), <<n, scrapeLog[n].content>>)
         ELSE ExpectedSummCalls(n - 1)

SummCallArgs == [n \in 1..Len(summLog) |-> <<summLog[n].link, summLog[n].content>>]

\* The per-link diagnostics owed to the first n scraped links: one for a link
\* whose scrape raised, one for a link whose summarization raised.
RECURSIVE ExpectedLinkDiags(_)
ExpectedLinkDiags(n) ==
    IF n = 0 THEN <<>>
    ELSE IF scrapeLog[n].threw
         THEN Append(ExpectedLinkDiags(n - 1), Diag("scrape_error", n))
         ELSE IF SummThrew(n)
         THEN Append(ExpectedLinkDiags(n - 1), Diag("summarize_error", n))
         ELSE ExpectedLinkDiags(n - 1)

LinkDiags == SelectSeq(diagnostics, LAMBDA d : d.link # 0)

Count(kind) == Cardinality({n \in 1..Len(diagnostics) : diagnostics[n].kind = kind})

AfterRun == pc \in {"display", "except", "finally", "reset", "done"}

\* ------------------------------------------------------------------ claims

\* C1: whenever the browser session was acquired (AISearchEngine constructed),
\* driver.quit is called exactly once by the time main ends, whatever the exit
\* path (normal return, exception from search_bing, from the loop, from the
\* display); it is never called without a session, never twice, and not before
\* the pipeline and the display are over.
C1_SessionReleasedExactlyOnce ==
    /\ acquired = (IF engine THEN 1 ELSE 0)
    /\ released <= acquired
    /\ (released = 1 => pc \in {"reset", "done"})
    /\ (pc = "done" => released = acquired)

C1_Witness ==
    pc = "done" /\ engine /\ released = 1 /\ raised = "loop"

\* C2: the value search_and_summarize returns is exactly the (summary, url)
\* pairs of those of the first max_results collected links whose scrape gave
\* non-empty text and whose summary is non-empty, in collection order; each
\* citation is the url given to scrape_content, each summary was produced from
\* that link's content, and failed links leave no entry.
C2_ResultIsFilteredPairs ==
    sas = "returned" =>
        /\ Len(scrapeLog) = Len(FirstLinks)
        /\ \A k \in 1..Len(scrapeLog) : scrapeLog[k].url = FirstLinks[k]
        /\ \A n \in 1..Len(summLog) :
               summLog[n].content = scrapeLog[summLog[n].link].content
        /\ Len(ret.summaries) = Len(ret.citations)
        /\ zip(ret.summaries, ret.citations) = ExpectedPairs(Len(scrapeLog))

C2_Witness ==
    /\ sas = "returned"
    /\ urls = <<"a", "b", "c">>
    /\ scrapeLog[2].content = <<>>
    /\ ret = [summaries |-> <<"S1", "S2">>, citations |-> <<"a", "c">>]

\* C3 as claimed: when the wait for the results container times out,
\* search_and_summarize returns a result with no summaries and no citations
\* (the exception does not leave it).
C3_TimeoutGivesEmptyResult ==
    (timedOut /\ pc = "done") => (sas = "returned" /\ ret = EmptyResults)

\* C3 as amended: when the wait for the results container times out, the
\* exception leaves search_bing and search_and_summarize, which returns
\* nothing; no link is processed; main catches it, shows one "error during
\* search" diagnostic, shows neither pairs nor the "no results" warning, and
\* releases the session.
C3_TimeoutPropagatesToMain ==
    timedOut =>
        /\ sas = "raised"
        /\ raised = "search_bing"
        /\ scrapeLog = <<>> /\ summLog = <<>>
        /\ shown = <<>>
        /\ Count("no_results") = 0
        /\ (pc \in {"finally", "reset", "done"} => Count("search_error") = 1)
        /\ (pc = "done" => released = 1)

C3_Witness ==
    timedOut /\ pc = "done" /\ Count("search_error") = 1

\* C4 as claimed: clean_and_limit_text(text, max_words) has at most max_words
\* whitespace-separated words and no character outside 7-bit ASCII.
C4_AtMostMaxWordsAndAscii ==
    npc \in {"cleaned", "recleaned"} =>
        /\ WordCount(cleaned) <= cap
        /\ IsAscii(cleaned)

\* C5 as claimed: cleaning the cleaned text again with the same word cap
\* changes nothing.
C5_Idempotent ==
    npc = "recleaned" => recleaned = cleaned

\* C6: at every point of search_and_summarize the summaries and the citations
\* have the same length, which is at most the number of iterations started,
\* which is at most min(max_results, number of collected links); so the
\* returned result has at most max_results entries.
C6_ParallelListsBounded ==
    /\ Len(results.summaries) = Len(results.citations)
    /\ Len(results.summaries) <= i
    /\ i <= Min(max_results, Len(collected))
    /\ (sas = "returned" =>
           /\ Len(ret.summaries) = Len(ret.citations)
           /\ Len(ret.summaries) <= max_results)

C6_Witness ==
    /\ sas = "returned"
    /\ Len(collected) = 3
    /\ max_results = 2
    /\ Len(ret.summaries) = 2

\* C7: with an empty api_key nothing of the pipeline runs: no AISearchEngine,
\* no browser session, no search, scrape or summarization; a clicked run ends
\* with exactly the credential diagnostic, which is not the "no results"
\* warning; that warning is only shown for a returned, empty result.
C7_MissingKeyStopsBeforePipeline ==
    /\ api_key = "" =>
          /\ ~engine /\ acquired = 0 /\ searchCalls = 0
          /\ scrapeLog = <<>> /\ summLog = <<>>
          /\ pc \in {"main", "reset", "done"}
          /\ (pc = "reset" => diagnostics = <<Diag("api_key_missing", 0)>>)
          /\ (pc = "done" => diagnostics \in {<<>>, <<Diag("api_key_missing", 0)>>})
          /\ Count("no_results") = 0
    /\ Count("no_results") > 0 =>
          /\ api_key # "" /\ sas = "returned" /\ ret.summaries = <<>>
          /\ Count("api_key_missing") = 0

C7_Witness ==
    api_key = "" /\ query # "" /\ pc = "done" /\ Count("api_key_missing") = 1

\* C8: scrape_content is attempted on the first max_results collected links,
\* once each and in order: the k-th call is for the k-th link, every started
\* iteration has exactly one call, a returned run has called it for all of
\* them, and no scrape or summarization failure ever ends the loop (only a
\* search timeout or an exception of the loop's own progress/sleep lines does).
C8_EveryLinkScrapedOnceInOrder ==
    /\ Len(scrapeLog) = (IF pc = "scrape" THEN i - 1 ELSE i)
    /\ \A k \in 1..Len(scrapeLog) :
           scrapeLog[k].link = k /\ scrapeLog[k].url = FirstLinks[k]
    /\ (pc = "return" \/ sas = "returned") =>
           Len(scrapeLog) = Min(max_results, Len(collected))
    /\ sas = "raised" => raised \in {"search_bing", "loop"}

C8_Witness ==
    /\ sas = "returned"
    /\ Len(scrapeLog) = 3
    /\ scrapeLog[1].threw
    /\ SummThrew(2)
    /\ SummaryOf(3) # ""

\* C9: summarize_content is called exactly once for each link whose scrape gave
\* non-empty text, with that text, before the next link is scraped, and never
\* for a link whose scrape gave ""; with no collected link the run makes no
\* summarization call and returns an empty result without raising.
C9_SummarizeOncePerNonEmptyContent ==
    /\ SummCallArgs =
           ExpectedSummCalls(IF pc = "summarize" THEN Len(scrapeLog) - 1
                             ELSE Len(scrapeLog))
    /\ \A n \in 1..Len(summLog) : summLog[n].content # <<>>
    /\ (searchCalls = 1 /\ ~timedOut /\ collected = <<>>) =>
           /\ summLog = <<>>
           /\ sas # "raised"
           /\ (AfterRun => sas = "returned" /\ ret = EmptyResults)

C9_Witness ==
    /\ pc = "scrape"
    /\ i = 3
    /\ scrapeLog[1].content # <<>>
    /\ scrapeLog[2].content = <<>>
    /\ Len(summLog) = 1

\* C10: a link whose scrape or whose summarization raised gets exactly one
\* diagnostic, recorded in that link's own iteration, and no other link
\* diagnostic exists; when the summarizer raised for every link, the returned
\* result is empty, there are as many link diagnostics as links, and the
\* session is released when main ends.
C10_OneDiagnosticPerFailingLink ==
    /\ LinkDiags = ExpectedLinkDiags(Len(scrapeLog))
    /\ \A n \in 1..Len(LinkDiags) : LinkDiags[n].link <= i
    /\ (sas = "returned" /\ \A k \in 1..Len(urls) : SummThrew(k)) =>
           /\ ret = EmptyResults
           /\ Len(LinkDiags) = Len(urls)
           /\ (pc = "done" => released = 1)

C10_Witness ==
    /\ pc = "done"
    /\ Len(urls) = 3
    /\ \A k \in 1..3 : SummThrew(k)
    /\ released = 1

====
